---- MODULE Spec2Model ----
(***************************************************************************)
(* A model of Reelify (src/app.py): the highlight extractor                *)
(* get_reel_segments, the workspace cleaner safe_delete_dir, and the       *)
(* Streamlit script whose reruns drive the video stages, the chunking      *)
(* stage, the transcription loop and the clean stage.                      *)
(*                                                                         *)
(* Text is modelled as a sequence of one-character strings, so slicing,    *)
(* concatenation, stripping and formatting are computed, not assumed.      *)
(***************************************************************************)
EXTENDS Integers, Sequences, FiniteSets, TLC

\* ------------------------------------------------------------------------
\* Program constants
\* ------------------------------------------------------------------------

\* transcript[i:i+1000] / range(0, len(transcript), 1000)
WindowSize == 1000

\* min(5, len(highlights))
MaxHighlights == 5

\* end_time = start_time + 30
HighlightLength == 30

\* video_duration_secs=600
DefaultDuration == 600

\* ------------------------------------------------------------------------
\* Bounds of the model
\* ------------------------------------------------------------------------

\* transcripts have up to MaxWindows full windows, plus a remainder
MaxWindows == 5

\* total durations 0..MaxSmallDuration are enumerated, besides a few larger
MaxSmallDuration == 7

\* ------------------------------------------------------------------------
\* Text helpers
\* ------------------------------------------------------------------------

Min(a, b) == IF a <= b THEN a ELSE b

DigitChars == <<"0", "1", "2", "3", "4", "5", "6", "7", "8", "9">>

\* str(n) for n >= 0
RECURSIVE Decimal(_)
Decimal(n) ==
    IF n < 10 THEN <<DigitChars[n + 1]>>
    ELSE Decimal(n \div 10) \o <<DigitChars[(n % 10) + 1]>>

RECURSIVE Repeat(_, _)
Repeat(c, k) == IF k <= 0 THEN <<>> ELSE <<c>> \o Repeat(c, k - 1)

\* f"{n:0w}" and C's %0wd: zero-padded to a minimum width, never truncated
ZeroPad(n, w) == Repeat("0", w - Len(Decimal(n))) \o Decimal(n)

\* The characters str.strip() removes: the 29 code points str.isspace() is
\* true of.  A code point TLA+ strings have no escape for is written by
\* its number, "U+000B".
Whitespace ==
    {"\t", "\n", "U+000B", "\f", "\r", "U+001C", "U+001D", "U+001E", "U+001F",
     " ", "U+0085", "U+00A0", "U+1680", "U+2000", "U+2001", "U+2002",
     "U+2003", "U+2004", "U+2005", "U+2006", "U+2007", "U+2008", "U+2009",
     "U+200A", "U+2028", "U+2029", "U+202F", "U+205F", "U+3000"}

RECURSIVE LStrip(_)
LStrip(s) ==
    IF s # <<>> /\ Head(s) \in Whitespace THEN LStrip(Tail(s)) ELSE s

RECURSIVE RStrip(_)
RStrip(s) ==
    IF s # <<>> /\ s[Len(s)] \in Whitespace
    THEN RStrip(SubSeq(s, 1, Len(s) - 1)) ELSE s

\* str.strip()
Strip(s) == RStrip(LStrip(s))

\* s[i:j] for 0 <= i <= j
Slice(s, i, j) == SubSeq(s, i + 1, Min(j, Len(s)))

\* range(start, stop, step) for step > 0
RECURSIVE PyRange(_, _, _)
PyRange(start, stop, step) ==
    IF start >= stop THEN <<>>
    ELSE <<start>> \o PyRange(start + step, stop, step)

RECURSIVE Flatten(_)
Flatten(ss) == IF ss = <<>> THEN <<>> ELSE Head(ss) \o Flatten(Tail(ss))

\* ------------------------------------------------------------------------
\* format_timestamp
\* ------------------------------------------------------------------------

format_timestamp(seconds) ==
    LET m0 == seconds \div 60
        s  == seconds % 60
        h  == m0 \div 60
        m  == m0 % 60
    IN  ZeroPad(h, 2) \o <<":">> \o ZeroPad(m, 2) \o <<":">> \o ZeroPad(s, 2)

\* ------------------------------------------------------------------------
\* get_reel_segments
\* ------------------------------------------------------------------------

\* The summarization service is external.  A stub svc = [failAt, salt]
\* stands for it: call number failAt raises (0: none does), and the text
\* a call returns is one of SummaryTexts, padded with whitespace or not.
SummaryTexts ==
    << <<"a", "b">>,
       <<" ", "\t", "c", " ", "d", "\r", "\n">>,
       <<"\n", "\f", "U+00A0", "e", "U+2028", " ">>,
       <<"\r", "a", "\r", "b", "U+000B">> >>

summarizer(chunk, j, svc) ==
    SummaryTexts[((j + svc.salt + Len(chunk)) % Len(SummaryTexts)) + 1]

ChunksOff999(transcript) ==
    LET starts == PyRange(0, Len(transcript), WindowSize - 1)
    IN  [k \in 1..Len(starts) |->
            Slice(transcript, starts[k], starts[k] + WindowSize)]

\* chunks = [transcript[i:i+1000] for i in range(0, len(transcript), 1000)]
Chunks(transcript) ==
    LET starts == PyRange(0, Len(transcript), WindowSize)
    IN  [k \in 1..Len(starts) |->
            Slice(transcript, starts[k], starts[k] + WindowSize)]

\* one of the summarizer calls of the loop raises, and the function with it
Raises(chunks, svc) == svc.failAt \in 1..Len(chunks)

\* how many summarizer calls return before the loop ends or one raises
CallsReturned(chunks, svc) ==
    IF Raises(chunks, svc) THEN svc.failAt - 1 ELSE Len(chunks)

CallsMadeCapped(chunks, svc) ==
    IF Raises(chunks, svc) THEN svc.failAt
    ELSE Min(MaxHighlights, Len(chunks))

\* for chunk in chunks: summary = summarizer(chunk, ...): the calls made
CallsMade(chunks, svc) ==
    IF Raises(chunks, svc) THEN svc.failAt ELSE Len(chunks)

TotalSegmentsUncapped(highlights) == Len(highlights)

\* total_segments = min(5, len(highlights))
TotalSegments(highlights) == Min(MaxHighlights, Len(highlights))

TimeStepByCount(video_duration_secs, total_segments) ==
    IF total_segments = 0 THEN video_duration_secs
    ELSE video_duration_secs \div total_segments

\* time_step = video_duration_secs // (total_segments + 1)
TimeStep(video_duration_secs, total_segments) ==
    video_duration_secs \div (total_segments + 1)

StartTimeStuck(i, time_step) == time_step

\* start_time = time_step; then start_time += time_step once per iteration
RECURSIVE StartTime(_, _)
StartTime(i, time_step) ==
    IF i = 1 THEN time_step ELSE StartTime(i - 1, time_step) + time_step

\* f"{i}. {format_timestamp(start_time)} - {format_timestamp(end_time)}: {point.strip()}\n"
FormatLine(i, start_time, end_time, point) ==
    Decimal(i) \o <<".", " ">> \o format_timestamp(start_time)
        \o <<" ", "-", " ">> \o format_timestamp(end_time)
        \o <<":", " ">> \o Strip(point) \o <<"\n">>

\* The whole function.  raised: a summarizer call raised and nothing is
\* returned.  calls: the chunks handed to the summarizer, in call order.
\* timeline: one record per iteration of the formatting loop.  formatted:
\* the returned string.
get_reel_segments(transcript, video_duration_secs, svc) ==
    LET chunks     == Chunks(transcript)
        nret       == CallsReturned(chunks, svc)
        calls      == SubSeq(chunks, 1, CallsMade(chunks, svc))
        highlights == [j \in 1..nret |-> summarizer(chunks[j], j, svc)]
        raised     == Raises(chunks, svc)
        total_segments == TotalSegments(highlights)
        time_step  == TimeStep(video_duration_secs, total_segments)
        timeline   ==
            [i \in 1..total_segments |->
                [ordinal    |-> i,
                 start_time |-> StartTime(i, time_step),
                 end_time   |-> StartTime(i, time_step) + HighlightLength,
                 point      |-> Strip(highlights[i])]]
        lines      ==
            [i \in 1..total_segments |->
                FormatLine(i, timeline[i].start_time, timeline[i].end_time,
                           highlights[i])]
    IN  [raised    |-> raised,
         chunks    |-> chunks,
         calls     |-> calls,
         timeline  |-> IF raised THEN <<>> ELSE timeline,
         formatted |-> IF raised THEN <<>> ELSE Flatten(lines)]

\* ------------------------------------------------------------------------
\* The extractor's arguments and results as state
\* ------------------------------------------------------------------------

VARIABLES
    transcript,            \* the transcript argument
    video_duration_secs,   \* the duration argument
    xpc,                   \* "input", "returned" or "raised"
    summarized,            \* chunks handed to the summarizer, in call order
    timeline,              \* one record per formatted highlight
    formatted              \* the returned string

xvars == <<transcript, video_duration_secs, xpc, summarized, timeline, formatted>>

Alphabet == <<"a", "b", "c", " ", "d", "e", "\n">>

\* a transcript of the given length; its period does not divide WindowSize
TranscriptOf(len) == [i \in 1..len |-> Alphabet[((i - 1) % Len(Alphabet)) + 1]]

Remainders == {0, 1, WindowSize - 1}

Lengths == {q * WindowSize + r : q \in 0..MaxWindows, r \in Remainders}

Durations ==
    (0..MaxSmallDuration) \cup {29, 30, 179, 180, DefaultDuration, 3661}

Salts == 0..1

\* ------------------------------------------------------------------------
\* Paths and constants of the script
\* ------------------------------------------------------------------------
\* A file name is a sequence of characters; a path below TEMP_DIR is a
\* sequence of names, <<name>> for a file directly in TEMP_DIR.

AUDIO_WAV == << <<"a", "u", "d", "i", "o", ".", "w", "a", "v">> >>

AUDIO_MP3 == << <<"a", "u", "d", "i", "o", ".", "m", "p", "3">> >>

VERTICAL_VIDEO == << <<"v", "e", "r", "t", "i", "c", "a", "l", "_", "o", "u", "t", "p", "u", "t", ".", "m", "p", "4">> >>

ChunkPrefix == <<"c", "h", "u", "n", "k", "_">>

ChunkSuffix == <<".", "m", "p", "4">>

\* CHUNK_PATTERN "chunk_%03d.mp4" as the segment muxer expands it
ChunkName(n) == ChunkPrefix \o ZeroPad(n, 3) \o ChunkSuffix

ChunkPath(n) == <<ChunkName(n)>>

\* glob.glob(os.path.join(TEMP_DIR, "chunk_*.mp4")): files directly in
\* TEMP_DIR whose name starts with "chunk_" and ends with ".mp4"
IsChunkPath(p) ==
    /\ Len(p) = 1
    /\ Len(p[1]) >= Len(ChunkPrefix) + Len(ChunkSuffix)
    /\ SubSeq(p[1], 1, Len(ChunkPrefix)) = ChunkPrefix
    /\ SubSeq(p[1], Len(p[1]) - Len(ChunkSuffix) + 1, Len(p[1])) = ChunkSuffix

GlobChunks(fs) == {p \in fs : IsChunkPath(p)}

\* the characters of file names, in code point order
CharOrder == <<".", "0", "1", "2", "3", "4", "5", "6", "7", "8", "9", "_", "a", "b", "c", "d", "e", "f", "g", "h", "i", "j", "k", "l", "m", "n", "o", "p", "q", "r", "s", "t", "u", "v", "w", "x", "y", "z">>

Ord == [c \in {CharOrder[i] : i \in 1..Len(CharOrder)} |->
            CHOOSE i \in 1..Len(CharOrder) : CharOrder[i] = c]

\* a[i:] < b[i:], given a[:i] = b[:i] (i counted from 1)
RECURSIVE StrLessFrom(_, _, _)
StrLessFrom(a, b, i) ==
    IF i > Len(b) THEN FALSE
    ELSE IF i > Len(a) THEN TRUE
    ELSE IF a[i] = b[i] THEN StrLessFrom(a, b, i + 1)
    ELSE Ord[a[i]] < Ord[b[i]]

\* str.__lt__: lexicographic by code point, a proper prefix first
StrLess(a, b) == StrLessFrom(a, b, 1)

\* sorted(paths): all paths here are files of TEMP_DIR, so they are
\* ordered by their names.  ranked pairs each path with the number of
\* paths that sort before it.
Sorted(paths) ==
    LET ranked ==
            {<<Cardinality({q \in paths : StrLess(q[1], p[1])}), p>> :
                p \in paths}
    IN  [k \in 1..Cardinality(paths) |->
            (CHOOSE t \in ranked : t[1] = k - 1)[2]]

\* ------------------------------------------------------------------------
\* safe_delete_dir
\* ------------------------------------------------------------------------

IsUnder(d, p) == Len(p) > Len(d) /\ SubSeq(p, 1, Len(d)) = d

\* os.walk(path, topdown=False) visits every directory after the ones
\* below it.  In each, os.remove deletes every file that is not locked and
\* a locked one (PermissionError) is reported with st.warning and left;
\* os.rmdir then deletes every subdirectory that is empty by now and leaves
\* the others (OSError, passed).  Last, os.rmdir(path) deletes the root if
\* it is empty.  warnings holds the files st.warning was called for.
safe_delete_dir(fs, ds, lk) ==
    LET kept == {p \in fs : p \in lk}
    IN  [files    |-> kept,
         dirs     |-> {d \in ds : \E p \in kept : IsUnder(d, p)},
         exists   |-> kept # {},
         warnings |-> kept]

\* ------------------------------------------------------------------------
\* The stages of the script
\* ------------------------------------------------------------------------

NoFile == <<>>

VideoName == <<"v", "i", "d", "e", "o", ".", "m", "p", "4">>

\* names an uploaded video may have: an ordinary one, and the name of the
\* script's own vertical output
VideoNames == {VideoName, VERTICAL_VIDEO[1]}

AudioA == <<"a", ".", "m", "p", "3">>

AudioB == <<"b", ".", "w", "a", "v">>

\* the uploader takes several files; the two are uploaded together
AudioUploads == {<<AudioA, AudioB>>}

\* what the services do with the uploaded files: with each of them, any of
\* the three outcomes
KindsOf(ua) == [1..Len(ua) -> {"whisper_fails", "text", "summarizer_fails"}]

TxtSuffix == <<".", "t", "x", "t">>

\* a directory and a file in it, left in TEMP_DIR by an earlier session
OldDir == << <<"o", "l", "d">> >>

OldFile == << <<"o", "l", "d">>, <<"n", "o", "t", "e", ".", "t", "x", "t">> >>

\* lines 89-91: the uploaded video is written to TEMP_DIR under its name
SaveUpload(fs, uf) == IF uf = NoFile THEN fs ELSE fs \cup {<<uf>>}

\* ffmpeg refuses to write its output over its input
VerticalOutcome(uf, vert) == IF <<uf>> = VERTICAL_VIDEO THEN "fail" ELSE vert

\* lines 94-123.  wav, mp3: the audio transforms succeed.  vert: "ok",
\* "fail" (no output file written) or "fail_partial" (ffmpeg exits with an
\* error after it has created the output file).
ExtractStage(fs, uf, wav, mp3, vert) ==
    LET v == VerticalOutcome(uf, vert)
    IN  [files    |-> fs \cup (IF wav THEN {AUDIO_WAV} ELSE {})
                         \cup (IF mp3 THEN {AUDIO_MP3} ELSE {})
                         \cup (IF v \in {"ok", "fail_partial"}
                               THEN {VERTICAL_VIDEO} ELSE {}),
         errors   |-> (IF wav THEN {} ELSE {"wav"})
                         \cup (IF mp3 THEN {} ELSE {"mp3"})
                         \cup (IF v = "ok" THEN {} ELSE {"vertical"}),
         services |-> <<"wav", "mp3", "vertical">>,
         verticalOk |-> v = "ok"]

\* lines 133-137: every chunk file is removed, a failure to remove passed
ClearChunks(fs, lk) == fs \ {p \in GlobChunks(fs) : p \notin lk}

\* lines 125-155.  segOk: the segment transform succeeds; n: the number of
\* chunk files it writes (all of them, or the ones before it fails).
\* atService: the chunk files in TEMP_DIR when the transform is invoked;
\* stale: those of them it does not write anew.
SplitStage(fs, lk, segOk, n) ==
    IF VERTICAL_VIDEO \notin fs
    THEN [files |-> fs, stopped |-> TRUE, errors |-> {"precondition"},
          services |-> <<>>, atService |-> {}, stale |-> {}, chunks |-> <<>>]
    ELSE LET cleared == ClearChunks(fs, lk)
             written == {ChunkPath(i) : i \in 0..(n - 1)}
             after   == cleared \cup written
         IN  [files     |-> after,
              stopped   |-> FALSE,
              errors    |-> IF segOk THEN {} ELSE {"chunking"},
              services  |-> <<"segment">>,
              atService |-> GlobChunks(cleared),
              stale     |-> GlobChunks(cleared) \ written,
              chunks    |-> IF segOk THEN Sorted(GlobChunks(after)) ELSE <<>>]

\* What the services do with an uploaded audio file depends on the file:
\* the transcription service fails on it ("whisper_fails"), or returns a
\* text that the summarization service then summarizes ("text") or fails on
\* ("summarizer_fails").

\* the length of the transcripts of the application's audio files
AppTranscriptLen == 2

WhisperText(outcome) == TranscriptOf(AppTranscriptLen)

\* lines 163-199 for one audio file: it is saved; inside the outer try the
\* transcription service is called, the transcript is written and shown;
\* inside the inner try get_reel_segments(transcript) is called, of which
\* the loop sees whether it raises.  A failure of either is reported and
\* the loop goes on.
TranscribeOne(acc, name, outcome) ==
    LET saved == acc.files \cup {<<name>>}
        raised == Raises(Chunks(WhisperText(outcome)),
                         [failAt |-> IF outcome = "summarizer_fails"
                                     THEN 1 ELSE 0,
                          salt |-> 0])
    IN  IF outcome = "whisper_fails"
        THEN [acc EXCEPT !.files = saved,
                         !.attempted = @ \cup {name},
                         !.transcribeFailed = @ \cup {name}]
        ELSE [acc EXCEPT !.files = saved \cup {<<name \o TxtSuffix>>},
                         !.attempted = @ \cup {name},
                         !.transcribed = @ \cup {name},
                         !.highlighted =
                             IF raised THEN @ ELSE @ \cup {name},
                         !.highlightFailed =
                             IF raised THEN @ \cup {name} ELSE @]

NoTranscription(fs) ==
    [files |-> fs, attempted |-> {}, transcribed |-> {}, highlighted |-> {},
     transcribeFailed |-> {}, highlightFailed |-> {}]

\* for audio in uploaded_audios: ...
RECURSIVE TranscribeLoop(_, _, _, _)
TranscribeLoop(acc, ua, tr, i) ==
    IF i > Len(ua) THEN acc
    ELSE TranscribeLoop(TranscribeOne(acc, ua[i], tr[i]), ua, tr, i + 1)

\* lines 157-199
TranscribeStage(fs, ua, tr) == TranscribeLoop(NoTranscription(fs), ua, tr, 1)

\* lines 201-207: safe_delete_dir(TEMP_DIR), after which the run sleeps.
\* TEMP_DIR is gone by then unless a locked file has kept it.
CleanStage(fs, ds, lk) ==
    LET r == safe_delete_dir(fs, ds, lk)
    IN  [files |-> r.files, dirs |-> r.dirs, exists |-> r.exists,
         warnings |-> r.warnings]

\* One run of the script from its first line to its last, to st.stop(), or
\* to the time.sleep(1) of a clean run, with at most one button pressed.  c
\* holds the outcomes of the external services during the run.
Script(button, fs, ds, lk, uf, ua, c) ==
    LET f0 == SaveUpload(fs, uf)
        ex == ExtractStage(f0, uf, c.wav, c.mp3, c.vert)
        sp == SplitStage(f0, lk, c.segOk, c.n)
        f1 == IF button = "extract" THEN ex.files
              ELSE IF button = "split" THEN sp.files ELSE f0
        stopped == button = "split" /\ sp.stopped
        tr == IF stopped THEN NoTranscription(f1)
              ELSE TranscribeStage(f1, ua, c.tr)
        cleaning == button = "clean" /\ ~stopped
        cl == CleanStage(tr.files, ds, lk)
    IN  [files  |-> IF cleaning THEN cl.files ELSE tr.files,
         dirs   |-> IF cleaning THEN cl.dirs ELSE ds,
         exists |-> IF cleaning THEN cl.exists ELSE TRUE,
         verticalOk |-> button = "extract" /\ ex.verticalOk,
         run    |->
            [button    |-> button,
             stopped   |-> stopped,
             errors    |-> IF button = "extract" THEN ex.errors
                           ELSE IF button = "split" THEN sp.errors ELSE {},
             services  |-> IF button = "extract" THEN ex.services
                           ELSE IF button = "split" THEN sp.services ELSE <<>>,
             atService |-> IF button = "split" THEN sp.atService ELSE {},
             stale     |-> IF button = "split" THEN sp.stale ELSE {},
             chunks    |-> IF button = "split" THEN sp.chunks ELSE <<>>,
             attempted |-> tr.attempted,
             transcribed |-> tr.transcribed,
             highlighted |-> tr.highlighted,
             transcribeFailed |-> tr.transcribeFailed,
             highlightFailed |-> tr.highlightFailed,
             cleanPre  |-> IF cleaning THEN tr.files ELSE {},
             lockedPre |-> IF cleaning THEN {q \in tr.files : q \in lk}
                           ELSE {},
             warnings  |-> IF cleaning THEN cl.warnings ELSE {}]]

\* ------------------------------------------------------------------------
\* The application: the workspace on disk, the uploads, the script's runs
\* ------------------------------------------------------------------------

VARIABLES
    tempExists,       \* TEMP_DIR exists
    files,            \* the paths of the files below TEMP_DIR
    dirs,             \* the paths of the directories below TEMP_DIR
    uploaded_file,    \* the name of the uploaded video, or NoFile
    uploaded_audios,  \* the names of the uploaded audio files
    audio_kinds,      \* what the services do with each of them
    verticalEverOk,   \* the vertical transform has completed successfully
    run,              \* what the last run of the script did
    pc                \* "idle", or "sleeping": a clean run is at time.sleep(1)

avars == <<tempExists, files, dirs, uploaded_file, uploaded_audios,
           audio_kinds, verticalEverOk, run, pc>>

vars == <<xvars, avars>>

\* the segment transform writes up to this many chunk files
MaxChunks == 2

\* up to this many files are held open at a time
MaxLocked == 1

\* Any file of TEMP_DIR may be held open by something outside the script
\* when the script comes to remove it: a video player showing the vertical
\* video or a chunk (reel_video_slot.video, video_slot.video), a download,
\* whatever left a file there.  os.remove fails on such a file.  Held(fs)
\* are the sets of files of fs that may be held open at a time.
Held(fs) == {lk \in SUBSET fs : Cardinality(lk) <= MaxLocked}

NoRun ==
    [button |-> "none", stopped |-> FALSE, errors |-> {}, services |-> <<>>,
     atService |-> {}, stale |-> {}, chunks |-> <<>>, attempted |-> {},
     transcribed |-> {}, highlighted |-> {}, transcribeFailed |-> {},
     highlightFailed |-> {}, cleanPre |-> {}, lockedPre |-> {},
     warnings |-> {}]

\* before the script's first run: TEMP_DIR is left over from an earlier
\* session (os.makedirs(TEMP_DIR, exist_ok=True) takes it as it is); the
\* state of a fresh TEMP_DIR is the one a clean run leaves
AInit ==
    /\ tempExists = TRUE
    /\ files = {OldFile}
    /\ dirs = {OldDir}
    /\ uploaded_file = NoFile
    /\ uploaded_audios = <<>>
    /\ audio_kinds = <<>>
    /\ verticalEverOk = FALSE
    /\ run = NoRun
    /\ pc = "idle"

NoChoice ==
    [wav |-> TRUE, mp3 |-> TRUE, vert |-> "ok", segOk |-> TRUE, n |-> 0]

\* the script runs with the given button pressed; a run starts when the one
\* before it has ended
Rerun(button, uf, ua, kinds, c, lk) ==
    /\ pc = "idle"
    /\ pc' = IF button = "clean" THEN "sleeping" ELSE "idle"
    /\ \E r \in {Script(button, files, dirs, lk, uf, ua,
                      [wav |-> c.wav, mp3 |-> c.mp3, vert |-> c.vert,
                       segOk |-> c.segOk, n |-> c.n, tr |-> kinds])} :
        /\ tempExists' = r.exists
        /\ files' = r.files
        /\ dirs' = r.dirs
        /\ verticalEverOk' = (verticalEverOk \/ r.verticalOk)
        /\ run' = r.run
        /\ uploaded_file' = uf
        /\ uploaded_audios' = ua
        /\ audio_kinds' = kinds
        /\ UNCHANGED xvars

\* a video is uploaded, or put in the place of the one uploaded before:
\* the script runs with no button pressed
UploadVideo ==
    \E name \in VideoNames :
        /\ name # uploaded_file
        /\ Rerun("none", name, uploaded_audios, audio_kinds, NoChoice, {})

\* the uploaded video is taken out of the uploader: the script runs with
\* no button pressed and uploaded_file is None
RemoveVideo ==
    /\ uploaded_file # NoFile
    /\ Rerun("none", NoFile, uploaded_audios, audio_kinds, NoChoice, {})

\* audio files are uploaded, or the uploaded ones are changed: the script
\* runs with no button pressed
UploadAudios ==
    \E ua \in AudioUploads :
        \E kinds \in KindsOf(ua) :
            /\ <<ua, kinds>> # <<uploaded_audios, audio_kinds>>
            /\ Rerun("none", uploaded_file, ua, kinds, NoChoice, {})

\* all audio files are taken out of the uploader
RemoveAudios ==
    /\ uploaded_audios # <<>>
    /\ Rerun("none", uploaded_file, <<>>, <<>>, NoChoice, {})

\* Any other interaction reruns the script with no st.button pressed and
\* the uploads as they are: a click on a download button
\* (st.download_button), an edit of a text area, a rerun asked for.
RerunNoButton ==
    Rerun("none", uploaded_file, uploaded_audios, audio_kinds, NoChoice, {})

\* "Extract Audio & Convert Video to Reel Format"
ClickExtract ==
    /\ uploaded_file # NoFile
    /\ \E wav \in BOOLEAN, mp3 \in BOOLEAN,
          vert \in {"ok", "fail", "fail_partial"} :
        Rerun("extract", uploaded_file, uploaded_audios, audio_kinds,
              [NoChoice EXCEPT !.wav = wav, !.mp3 = mp3, !.vert = vert], {})

\* "Create 30s Chunks from Reel Format", the segment transform writing one
\* of counts chunk files, and some of the chunk files of TEMP_DIR held open
SplitWith(counts) ==
    /\ uploaded_file # NoFile
    /\ \E segOk \in BOOLEAN, n \in counts, lk \in Held(GlobChunks(files)) :
        /\ segOk => n >= 1
        /\ Rerun("split", uploaded_file, uploaded_audios, audio_kinds,
                 [NoChoice EXCEPT !.segOk = segOk, !.n = n], lk)

ClickSplit == SplitWith(0..MaxChunks)

\* "Clean Temporary Files", to the time.sleep(1) of line 207.  The button
\* is drawn by the script's last statement, which a run ended by st.stop()
\* does not come to.  Some of the files safe_delete_dir finds, the ones the
\* run has written before among them, are held open.
ClickClean ==
    /\ ~run.stopped
    /\ \E lk \in Held(Script("none", files, dirs, {}, uploaded_file,
                             uploaded_audios,
                             [wav |-> TRUE, mp3 |-> TRUE, vert |-> "ok",
                              segOk |-> TRUE, n |-> 0,
                              tr |-> audio_kinds]).files) :
        Rerun("clean", uploaded_file, uploaded_audios, audio_kinds, NoChoice,
              lk)

\* the clean run wakes up: os.makedirs(TEMP_DIR, exist_ok=True), line 208,
\* and st.success
CleanWakes ==
    /\ pc = "sleeping"
    /\ pc' = "idle"
    /\ tempExists' = TRUE
    /\ UNCHANGED <<files, dirs, uploaded_file, uploaded_audios,
                   audio_kinds, verticalEverOk, run, xvars>>

XIdle ==
    /\ transcript = <<>>
    /\ video_duration_secs = DefaultDuration
    /\ xpc = "input"
    /\ summarized = <<>>
    /\ timeline = <<>>
    /\ formatted = <<>>

Init == AInit /\ XIdle

Next ==
    \/ UploadVideo
    \/ RemoveVideo
    \/ UploadAudios
    \/ RemoveAudios
    \/ RerunNoButton
    \/ ClickExtract
    \/ ClickSplit
    \/ ClickClean
    \/ CleanWakes

Spec == Init /\ [][Next]_vars

\* ------------------------------------------------------------------------
\* The extractor alone: its arguments are drawn, then it is applied
\* ------------------------------------------------------------------------

XInit ==
    /\ AInit
    /\ transcript \in {TranscriptOf(len) : len \in Lengths}
    /\ video_duration_secs \in Durations
    /\ xpc = "input"
    /\ summarized = <<>>
    /\ timeline = <<>>
    /\ formatted = <<>>

\* get_reel_segments runs to its return statement
ExtractReturns ==
    /\ xpc = "input"
    /\ \E salt \in Salts :
        LET r == get_reel_segments(transcript, video_duration_secs,
                                   [failAt |-> 0, salt |-> salt])
        IN  /\ xpc' = "returned"
            /\ summarized' = r.calls
            /\ timeline' = r.timeline
            /\ formatted' = r.formatted
    /\ UNCHANGED <<transcript, video_duration_secs, avars>>

\* one of the summarizer calls raises; the exception leaves the function
ExtractRaises ==
    /\ xpc = "input"
    /\ \E failAt \in 1..Len(Chunks(transcript)) :
        LET r == get_reel_segments(transcript, video_duration_secs,
                                   [failAt |-> failAt, salt |-> 0])
        IN  /\ xpc' = "raised"
            /\ summarized' = r.calls
            /\ timeline' = r.timeline
            /\ formatted' = r.formatted
    /\ UNCHANGED <<transcript, video_duration_secs, avars>>

XNext == ExtractReturns \/ ExtractRaises

SpecExtract == XInit /\ [][XNext]_vars

\* ------------------------------------------------------------------------
\* The chunking stage alone, on videos of many lengths
\* ------------------------------------------------------------------------

\* chunk counts 0..MaxListedChunks are enumerated, besides one larger
MaxListedChunks == 60

\* the larger one is the first count that has a four-digit chunk number
ChunkCounts == (0..MaxListedChunks) \cup {1001}

AfterUpload ==
    Script("none", {OldFile}, {OldDir}, {}, VideoName, <<>>,
           [wav |-> TRUE, mp3 |-> TRUE, vert |-> "ok", segOk |-> TRUE,
            n |-> 0, tr |-> <<>>])

AfterExtract ==
    Script("extract", AfterUpload.files, AfterUpload.dirs, {}, VideoName,
           <<>>,
           [wav |-> TRUE, mp3 |-> TRUE, vert |-> "ok", segOk |-> TRUE,
            n |-> 0, tr |-> <<>>])

\* the state of the application after a video was uploaded and all of
\* "Extract Audio & Convert Video to Reel Format" succeeded
CInit ==
    /\ tempExists = TRUE
    /\ files = AfterExtract.files
    /\ dirs = AfterExtract.dirs
    /\ uploaded_file = VideoName
    /\ uploaded_audios = <<>>
    /\ audio_kinds = <<>>
    /\ verticalEverOk = TRUE
    /\ run = AfterExtract.run
    /\ pc = "idle"
    /\ XIdle

\* the first click on "Create 30s Chunks from Reel Format"
FirstSplit == run.button = "extract" /\ SplitWith(ChunkCounts)

SpecChunks == CInit /\ [][FirstSplit]_vars

\* ------------------------------------------------------------------------
\* Properties
\* ------------------------------------------------------------------------

\* ceil(len / 1000), computed from the length alone
WindowCount(len) == (len + 999) \div 1000

\* the window a transcript's k-th 1000 characters make up
Window(text, k) ==
    [i \in 1..Min(1000, Len(text) - 1000 * (k - 1)) |->
        text[1000 * (k - 1) + i]]

\* the lines of a text that ends with "\n", each without its "\n"
Lines(text) ==
    LET ends == {i \in 1..Len(text) : text[i] = "\n"}
        End(k) == CHOOSE i \in ends :
                      Cardinality({j \in ends : j < i}) = k - 1
    IN  [k \in 1..Cardinality(ends) |->
            SubSeq(text, (IF k = 1 THEN 0 ELSE End(k - 1)) + 1, End(k) - 1)]

IsPrefixOf(a, b) == Len(a) <= Len(b) /\ SubSeq(b, 1, Len(a)) = a

\* C1: for a non-empty transcript the returned timeline has exactly
\* min(5, window_count) entries, and their ordinals are 1, 2, ..., in
\* output order: in the highlight records and at the start of the lines of
\* the returned string.
C1_TimelineLength ==
    (xpc = "returned" /\ transcript # <<>>) =>
        /\ Len(timeline) = Min(5, WindowCount(Len(transcript)))
        /\ Len(Lines(formatted)) = Len(timeline)
        /\ \A i \in 1..Len(timeline) :
            /\ timeline[i].ordinal = i
            /\ IsPrefixOf(Decimal(i) \o <<".", " ">>, Lines(formatted)[i])

\* the cap applies: more than five windows, five entries
C1_Witness ==
    /\ xpc = "returned"
    /\ WindowCount(Len(transcript)) > 5
    /\ Len(timeline) = 5
    /\ timeline[5].ordinal = 5

\* C2: the windows handed on by the windowing step are ceil(L / 1000) in
\* number, each but the last has exactly 1000 characters, none is empty,
\* and their concatenation in order is the transcript.
C2_WindowsPartition ==
    xpc = "returned" =>
        /\ Len(summarized) = WindowCount(Len(transcript))
        /\ \A k \in 1..(Len(summarized) - 1) : Len(summarized[k]) = 1000
        /\ \A k \in 1..Len(summarized) : summarized[k] # <<>>
        /\ Flatten(summarized) = transcript

\* several windows, the last one shorter
C2_Witness ==
    /\ xpc = "returned"
    /\ Len(summarized) >= 3
    /\ Len(summarized[Len(summarized)]) = 999
    /\ Len(transcript) % 1000 # 0

\* C3: with n = min(5, window_count) entries and total duration D, the
\* k-th highlight starts at k * floor(D / (n + 1)) and ends 30 later, in
\* the records and in the returned string; for D = 600 and n = 5 the
\* starts are 100, 200, 300, 400, 500 and the string starts
\* "1. 00:01:40 - 00:02:10: ".
C3_Offsets ==
    xpc = "returned" =>
        LET n == Len(timeline)
            D == video_duration_secs
        IN  /\ \A k \in 1..n :
                /\ timeline[k].start_time = k * (D \div (n + 1))
                /\ timeline[k].end_time = timeline[k].start_time + 30
                /\ IsPrefixOf(
                       Decimal(k) \o <<".", " ">>
                           \o format_timestamp(k * (D \div (n + 1)))
                           \o <<" ", "-", " ">>
                           \o format_timestamp(k * (D \div (n + 1)) + 30)
                           \o <<":", " ">>,
                       Lines(formatted)[k])
            /\ (D = 600 /\ n = 5) =>
                /\ [k \in 1..5 |-> timeline[k].start_time]
                       = <<100, 200, 300, 400, 500>>
                /\ IsPrefixOf(
                       <<"1", ".", " ", "0", "0", ":", "0", "1", ":", "4",
                         "0", " ", "-", " ", "0", "0", ":", "0", "2", ":",
                         "1", "0", ":", " ">>,
                       formatted)

\* the duration of ten minutes and five entries
C3_Witness ==
    /\ xpc = "returned"
    /\ video_duration_secs = 600
    /\ Len(timeline) = 5
    /\ timeline[5].start_time = 500
    /\ timeline[5].end_time = 530

\* C4, as claimed: in every timeline, for any transcript and any
\* non-negative total duration, the start offsets of consecutive
\* highlights are strictly increasing.
C4_StrictlyIncreasing ==
    xpc = "returned" =>
        \A k \in 1..(Len(timeline) - 1) :
            timeline[k].start_time < timeline[k + 1].start_time

\* C4, amended: the start offsets of consecutive highlights are strictly
\* increasing when the total duration is at least n + 1 seconds, n the
\* number of entries; when it is less, time_step is 0 and all of them are 0.
C4_IncreasingFromStep ==
    xpc = "returned" =>
        LET n == Len(timeline)
        IN  IF video_duration_secs >= n + 1
            THEN \A k \in 1..(n - 1) :
                     timeline[k].start_time < timeline[k + 1].start_time
            ELSE \A k \in 1..n : timeline[k].start_time = 0

\* five entries over six seconds: a step of one second
C4_Witness ==
    /\ xpc = "returned"
    /\ Len(timeline) = 5
    /\ video_duration_secs = 6
    /\ timeline[1].start_time = 1
    /\ timeline[5].start_time = 5

\* C9: the summarization service is called once per window, in window
\* order, for every window, also those beyond the five of the timeline (a
\* call that raises ends the calls); an empty transcript gives an empty
\* timeline, an empty string and no call.
C9_OneCallPerWindow ==
    /\ Len(summarized) <= WindowCount(Len(transcript))
    /\ \A j \in 1..Len(summarized) : summarized[j] = Window(transcript, j)
    /\ xpc = "returned" => Len(summarized) = WindowCount(Len(transcript))
    /\ (xpc = "returned" /\ transcript = <<>>) =>
        /\ summarized = <<>>
        /\ timeline = <<>>
        /\ formatted = <<>>
    /\ transcript = <<>> => xpc # "raised"

\* more windows than timeline entries, every one of them summarized
C9_Witness ==
    /\ xpc = "returned"
    /\ Len(timeline) = 5
    /\ Len(summarized) >= 6
    /\ summarized[6] = Window(transcript, 6)

\* the audio files of the last run
UploadedAudioNames == {uploaded_audios[i] : i \in 1..Len(uploaded_audios)}

\* C5: a click on the chunk button in a workspace where the vertical
\* transform has never completed successfully ends with the precondition
\* error, invokes no media transform and leaves no chunk file.
C5_SplitNeedsVertical ==
    (run.button = "split" /\ ~verticalEverOk) =>
        /\ run.stopped
        /\ run.errors = {"precondition"}
        /\ run.services = <<>>
        /\ GlobChunks(files) = {}

\* C6: after a chunk run that passes its precondition, no chunk file of
\* an earlier run is left: none is there when the segment transform is
\* invoked, and none the run did not write is there afterwards.
C6_NoStaleChunks ==
    (run.button = "split" /\ ~run.stopped) =>
        /\ run.atService = {}
        /\ run.stale = {}

\* a clean run has ended; the workspace it found held exactly one locked
\* file, and other files
OneLockedAmongOthers ==
    /\ run.button = "clean"
    /\ pc = "idle"
    /\ Cardinality(run.lockedPre) = 1
    /\ run.cleanPre \ run.lockedPre # {}

\* C7: a clean run on a workspace with exactly one locked file
\* among other files ends without an error, leaves TEMP_DIR an empty
\* directory and gives exactly one warning, for that file.
C7_CleanLeavesEmpty ==
    OneLockedAmongOthers =>
        /\ run.errors = {}
        /\ tempExists
        /\ files = {}
        /\ dirs = {}
        /\ run.warnings = run.lockedPre

\* C8: an error of a video stage never keeps the script from transcribing
\* the uploaded audio files, and a failure of the transcription or the
\* highlight extraction of one audio file never keeps the others from
\* getting their transcripts: every run attempts every uploaded audio file
\* and writes the transcript of every one the transcription service does
\* not fail on.
C8_StagesIsolated ==
    /\ run.attempted = UploadedAudioNames
    /\ \A i \in 1..Len(uploaded_audios) :
        audio_kinds[i] # "whisper_fails" =>
            /\ uploaded_audios[i] \in run.transcribed
            /\ <<uploaded_audios[i] \o TxtSuffix>> \in run.cleanPre \cup files

\* the segment number in a chunk file's name
RECURSIVE DigitsValue(_)
DigitsValue(ds) ==
    IF ds = <<>> THEN 0
    ELSE 10 * DigitsValue(SubSeq(ds, 1, Len(ds) - 1))
            + (CHOOSE d \in 0..9 : DigitChars[d + 1] = ds[Len(ds)])

ChunkNumber(p) ==
    DigitsValue(SubSeq(p[1], Len(ChunkPrefix) + 1,
                       Len(p[1]) - Len(ChunkSuffix)))

\* C10: the chunk list a successful chunk run shows is in temporal order:
\* segment numbers increase along it, whatever the number of chunks.
C10_ChunksInTemporalOrder ==
    \A i \in 1..(Len(run.chunks) - 1) :
        ChunkNumber(run.chunks[i]) < ChunkNumber(run.chunks[i + 1])

====
